---- MODULE Spec2Model ----
(***************************************************************************)
(* Routing & dispatch engine of Ridelinkmcp (RoutingService and the route  *)
(* record store), modelled from src/src/services/orderService.ts,          *)
(* src/src/api/routes.ts and src/prisma/schema.prisma.                      *)
(*                                                                         *)
(* Units.  TLA+ has no floating point, so every quantity is an exact       *)
(* integer multiple of a fixed unit:                                       *)
(*   distance            metres            (code: km)                      *)
(*   estimatedDuration   1/15000 minute    (code: minutes)                 *)
(*   fuel and toll cost  1/100000 currency (code: currency)                *)
(* Coordinates are in quarter degrees.                                     *)
(***************************************************************************)
EXTENDS Integers, Sequences, FiniteSets, TLC

\* ------------------------------------------------------------------ bounds
MaxRouteId  == 2
MaxStops    == 3
MaxTracking == 2
\* rate-limit windows the clock runs through
MaxWindows == 1
\* requests per window of the second rate-limited client
MaxOther == 2
\* updateRating calls on one transporter
MaxRatings == 2

\* ------------------------------------------------------------------ state
VARIABLES
  env,     \* process.env: GOOGLE_MAPS_API_KEY and MAPBOX_ACCESS_TOKEN
  routes,  \* the routes table; a row's id is its index
  calls,   \* per caller, the request being served (idle when none)
  last,    \* the call that returned most recently, with its outcome
  tour,    \* a run of the tour planner, or of the toll estimate, on its own
  transporters,  \* the transporters table (currentLocation is optional)
  trackingData,  \* the tracking_data table, oldest row first
  orders,  \* the orders table
  rated,   \* per transporter, the updateRating calls that returned
  store,   \* the rate limiter's store: per client id, count and resetTime
  clock,   \* Date.now(), in milliseconds
  window,  \* per client id, its current window: start, requests, passed
  reply    \* what the rate limiter did with the latest request

orderVars == <<orders, rated>>

limiterVars == <<store, clock, window, reply>>

vars == <<env, routes, calls, last, tour, transporters, trackingData,
          orders, rated, store, clock, window, reply>>

\* ------------------------------------------------------------- value sets
Wp(lat, lon) == [latitude |-> lat, longitude |-> lon]

P00 == Wp(0, 0)
P01 == Wp(0, 1)
P02 == Wp(0, 2)
P03 == Wp(0, 3)
P10 == Wp(1, 0)
P11 == Wp(1, 1)

Points == {P00, P01, P02, P03, P10, P11}

RouteStatus == {"PLANNED", "IN_PROGRESS", "COMPLETED", "CANCELLED"}

OrderIds       == {"o1"}
TransporterIds == {"t1"}
\* the callers whose requests are served concurrently
Callers        == {"A", "B"}
\* the route ids callers ask for; a row's id is its position in the table
RouteIds       == 1..MaxRouteId

\* vehicleType of the transporter rows (Transporter.vehicleType)
TransporterVehicleType == [t \in TransporterIds |-> "VAN"]

\* process.env values: a credential that is missing ("") or present
EnvValues == {"", "key"}

\* JavaScript truthiness of an environment string
Truthy(v) == v = "key"

\* an optional value is a sequence of length 0 (absent) or 1 (present)
None    == <<>>
Some(x) == <<x>>

\* a row of the transporters table (rating in 1/100)
Transporter(location) ==
  [currentLocation |-> location, rating |-> 0, totalDeliveries |-> 0]

\* enum OrderStatus
OrderStatus ==
  {"PENDING", "ASSIGNED", "IN_TRANSIT", "DELIVERED", "CANCELLED", "FAILED"}

\* the orders table with its rows as created, no rating call made
OrdersInit ==
  /\ orders = [o \in OrderIds |-> [status |-> "PENDING"]]
  /\ rated = [t \in TransporterIds |-> 0]

\* req.ip || 'unknown'
ClientIds == {"ip1", "unknown"}

\* const store: RateLimitStore = {}
EmptyStore == [k \in {} |-> [count |-> 0, resetTime |-> 0]]

NoWindow == [start |-> -1, requests |-> 0, passed |-> 0]

NoReply == [clientId |-> "", next |-> FALSE, status |-> 0, retryAfter |-> 0]

\* the rate limiter as the module is loaded
LimiterInit ==
  /\ store = EmptyStore
  /\ clock = 0
  /\ window = [c \in ClientIds |-> NoWindow]
  /\ reply = NoReply

Last(s) == s[Len(s)]

\* Array.prototype.slice(from) on a 1-based sequence holding indices 0..n-1
SliceFrom(s, from) == IF from >= Len(s) THEN <<>> ELSE SubSeq(s, from + 1, Len(s))

\* Array.prototype.slice(0, -1)
SliceInit(s) == IF Len(s) = 0 THEN <<>> ELSE SubSeq(s, 1, Len(s) - 1)

\* ---------------------------------------------------------------- GeoMath
\* Haversine distance with R = 6371 km, rounded to the metre, for the
\* points of Points (quarter degrees).  Distinct table values are distinct
\* floating point results and equal values are equal floating point results.
HaversineMetres ==
  [d \in {0, 1} \X {0, 1, 2, 3} |->
     IF d = <<0, 0>> THEN 0
     ELSE IF d = <<0, 1>> THEN 27799
     ELSE IF d = <<0, 2>> THEN 55597
     ELSE IF d = <<0, 3>> THEN 83396
     ELSE IF d = <<1, 0>> THEN 27799
     ELSE IF d = <<1, 1>> THEN 39313
     ELSE IF d = <<1, 2>> THEN 62160
     ELSE 87907]

Abs(x) == IF x < 0 THEN -x ELSE x

\* lat 0.25 row: one quarter degree of longitude is 27798 m there
calculateDistance(point1, point2) ==
  LET dLat == Abs(point2.latitude - point1.latitude)
      dLon == Abs(point2.longitude - point1.longitude)
  IN  IF dLat = 0 /\ point1.latitude = 1 /\ dLon = 1 THEN 27798
      ELSE HaversineMetres[<<dLat, dLon>>]

\* -------------------------------------------------------------- CostModel
\* per-km fuel price in 1/100 currency; 10 is the default of `|| 0.10`
calculateFuelCost(distance, vehicleType) ==
  LET rate == CASE vehicleType = "MOTORCYCLE"   -> 5
                [] vehicleType = "CAR"          -> 8
                [] vehicleType = "VAN"          -> 12
                [] vehicleType = "TRUCK_SMALL"  -> 15
                [] vehicleType = "TRUCK_MEDIUM" -> 20
                [] vehicleType = "TRUCK_LARGE"  -> 25
                [] OTHER                        -> 10
  IN  distance * rate

\* path.reduce(...): sum of the distances between consecutive points
RECURSIVE PathDistance(_)
PathDistance(path) ==
  IF Len(path) <= 1 THEN 0
  ELSE PathDistance(SliceInit(path))
       + calculateDistance(path[Len(path) - 1], path[Len(path)])

\* variant of estimateTollCost that measures from the first point straight
\* to the last
estimateTollCost_Direct(path) ==
  LET distance == IF Len(path) <= 1 THEN 0
                  ELSE calculateDistance(path[1], path[Len(path)])
  IN  IF distance > 50000 THEN distance * 2 ELSE 0

\* distance > 50 ? distance * 0.02 : 0
estimateTollCost(path) ==
  LET distance == PathDistance(path)
  IN  IF distance > 50000 THEN distance * 2 ELSE 0

\* ---------------------------------------------------------- RouteProvider
\* variant of getExternalRoute that tests the Mapbox token first
getExternalRoute_MapboxFirst(googleMapsApiKey, mapboxToken) ==
  IF Truthy(mapboxToken) THEN "mapbox"
  ELSE IF Truthy(googleMapsApiKey) THEN "google"
  ELSE "basic"

\* getExternalRoute: the variant chosen by the two credentials
getExternalRoute(googleMapsApiKey, mapboxToken) ==
  IF Truthy(googleMapsApiKey) THEN "google"
  ELSE IF Truthy(mapboxToken) THEN "mapbox"
  ELSE "basic"

\* variant of getBasicRoute that visits the waypoints nearest first
getBasicRoute_Reordered(request) ==
  LET distance == calculateDistance(request.origin, request.destination)
      nearest(w) == CHOOSE i \in 1..Len(w) : \A j \in 1..Len(w) :
                      calculateDistance(request.origin, w[i])
                        <= calculateDistance(request.origin, w[j])
      ordered == IF Len(request.waypoints) <= 1 THEN request.waypoints
                 ELSE <<request.waypoints[nearest(request.waypoints)]>> \o
                      [j \in 1..(Len(request.waypoints) - 1) |->
                         IF j < nearest(request.waypoints)
                         THEN request.waypoints[j] ELSE request.waypoints[j + 1]]
  IN  [path               |-> <<request.origin>> \o ordered
                                \o <<request.destination>>,
       totalDistance      |-> distance,
       estimatedDuration  |-> distance * 18,
       estimatedFuelCost  |-> 0,
       estimatedTollCost  |-> 0,
       trafficConditions  |-> "estimated",
       waypoints          |-> request.waypoints]

\* variant of getBasicRoute that measures the distance along the path
getBasicRoute_AlongPath(request) ==
  LET path == <<request.origin>> \o request.waypoints \o <<request.destination>>
      distance == PathDistance(path)
  IN  [path               |-> path,
       totalDistance      |-> distance,
       estimatedDuration  |-> distance * 18,
       estimatedFuelCost  |-> 0,
       estimatedTollCost  |-> 0,
       trafficConditions  |-> "estimated",
       waypoints          |-> request.waypoints]

\* variant of getBasicRoute whose speed estimate drops with the number of
\* stored routes
getBasicRoute_Load(request) ==
  LET distance == calculateDistance(request.origin, request.destination)
  IN  [path               |-> <<request.origin>> \o request.waypoints
                                \o <<request.destination>>,
       totalDistance      |-> distance,
       estimatedDuration  |-> distance * (18 + Len(routes)),
       estimatedFuelCost  |-> 0,
       estimatedTollCost  |-> 0,
       trafficConditions  |-> "estimated",
       waypoints          |-> request.waypoints]

\* fallback variant; duration = (distance / 50) * 60 minutes
getBasicRoute(request) ==
  LET distance == calculateDistance(request.origin, request.destination)
  IN  [path               |-> <<request.origin>> \o request.waypoints
                                \o <<request.destination>>,
       totalDistance      |-> distance,
       estimatedDuration  |-> distance * 18,
       estimatedFuelCost  |-> 0,
       estimatedTollCost  |-> 0,
       trafficConditions  |-> "estimated",
       waypoints          |-> request.waypoints]

\* leg.steps.forEach(step => path.push(step.start_location))
RECURSIVE StepStarts(_)
StepStarts(steps) ==
  IF steps = <<>> THEN <<>>
  ELSE <<Wp(Head(steps).start_location.lat, Head(steps).start_location.lng)>>
       \o StepStarts(Tail(steps))

RECURSIVE parseGoogleMapsPath(_)
parseGoogleMapsPath(legs) ==
  IF legs = <<>> THEN <<>>
  ELSE StepStarts(Head(legs).steps) \o parseGoogleMapsPath(Tail(legs))

\* coordinates.map(coord => ({latitude: coord[1], longitude: coord[0]}))
\* (a GeoJSON position is [lon, lat]: index 0 of the code is index 1 here)
parseMapboxPath(coordinates) ==
  [i \in 1..Len(coordinates) |-> Wp(coordinates[i][2], coordinates[i][1])]

RECURSIVE SumLegs(_, _)
SumLegs(legs, field) ==
  IF legs = <<>> THEN 0
  ELSE (IF field = "distance" THEN Head(legs).distance.value
        ELSE Head(legs).duration.value) + SumLegs(Tail(legs), field)

\* getGoogleMapsRoute after `await axios.get`: None when the call throws
\* (request error, or routes[0] undefined), otherwise the parsed route.
\* seconds / 60 minutes = seconds * 250 units
getGoogleMapsRoute(request, response) ==
  IF response.status # "ok" \/ response.routes = <<>> THEN None
  ELSE LET route == response.routes[1]
       IN  Some([path               |-> parseGoogleMapsPath(route.legs),
                 totalDistance      |-> SumLegs(route.legs, "distance"),
                 estimatedDuration  |-> SumLegs(route.legs, "duration") * 250,
                 estimatedFuelCost  |-> 0,
                 estimatedTollCost  |-> 0,
                 trafficConditions  |-> IF route.legs[1].duration_in_traffic
                                        THEN "real-time" ELSE "estimated",
                 waypoints          |-> request.waypoints])

getMapboxRoute(request, response) ==
  IF response.status # "ok" \/ response.routes = <<>> THEN None
  ELSE LET route == response.routes[1]
       IN  Some([path               |-> parseMapboxPath(route.geometry.coordinates),
                 totalDistance      |-> route.distance,
                 estimatedDuration  |-> route.duration * 250,
                 estimatedFuelCost  |-> 0,
                 estimatedTollCost  |-> 0,
                 trafficConditions  |-> "estimated",
                 waypoints          |-> request.waypoints])

\* variant of calculateOptimalRoute that substitutes the fallback route when
\* the provider threw
calculateOptimalRoute_Fallback(request, routeData) ==
  LET rd == IF routeData = None THEN getBasicRoute(request) ELSE routeData[1]
  IN  Some([path               |-> rd.path,
            totalDistance      |-> rd.totalDistance,
            estimatedDuration  |-> rd.estimatedDuration,
            estimatedFuelCost  |-> calculateFuelCost(rd.totalDistance,
                                                     request.vehicleType),
            estimatedTollCost  |-> estimateTollCost(rd.path),
            trafficConditions  |-> rd.trafficConditions,
            waypoints          |-> rd.waypoints])

\* variant of calculateOptimalRoute that returns the provider's route as it
\* is
calculateOptimalRoute_KeepZeros(request, routeData) == routeData

\* calculateOptimalRoute after the provider has returned routeData (None when
\* the provider threw): the costs are filled in, everything else is copied
calculateOptimalRoute(request, routeData) ==
  IF routeData = None THEN None
  ELSE LET rd == routeData[1]
       IN  Some([path               |-> rd.path,
                 totalDistance      |-> rd.totalDistance,
                 estimatedDuration  |-> rd.estimatedDuration,
                 estimatedFuelCost  |-> calculateFuelCost(rd.totalDistance,
                                                          request.vehicleType),
                 estimatedTollCost  |-> estimateTollCost(rd.path),
                 trafficConditions  |-> rd.trafficConditions,
                 waypoints          |-> rd.waypoints])

\* createError(message, statusCode)
createError(message, statusCode) == [message |-> message, statusCode |-> statusCode]

\* ------------------------------------------------------------ TourPlanner
\* variant of NearestIndex whose comparison is `<=`: the last of several
\* nearest stops is taken
RECURSIVE NearestIndex_LastTie(_, _, _, _)
NearestIndex_LastTie(current, unvisited, i, nearestIndex) ==
  IF i > Len(unvisited) THEN nearestIndex
  ELSE IF calculateDistance(current, unvisited[i])
            <= calculateDistance(current, unvisited[nearestIndex])
       THEN NearestIndex_LastTie(current, unvisited, i + 1, i)
       ELSE NearestIndex_LastTie(current, unvisited, i + 1, nearestIndex)

\* the inner for loop of solveTSP: index of the first stop of `unvisited`
\* (1-based) whose distance from `current` is strictly below all earlier ones
RECURSIVE NearestIndex(_, _, _, _)
NearestIndex(current, unvisited, i, nearestIndex) ==
  IF i > Len(unvisited) THEN nearestIndex
  ELSE IF calculateDistance(current, unvisited[i])
            < calculateDistance(current, unvisited[nearestIndex])
       THEN NearestIndex(current, unvisited, i + 1, i)
       ELSE NearestIndex(current, unvisited, i + 1, nearestIndex)

\* variant of Splice that always drops the first element (unvisited.shift())
Splice_Shift(s, index) == Tail(s)

\* unvisited.splice(index, 1)
Splice(s, index) ==
  [j \in 1..(Len(s) - 1) |-> IF j < index THEN s[j] ELSE s[j + 1]]

\* the while loop of solveTSP
RECURSIVE TSPLoop(_, _, _)
TSPLoop(current, unvisited, result) ==
  IF Len(unvisited) = 0 THEN result
  ELSE LET nearestIndex == NearestIndex(current, unvisited, 2, 1)
           nearest      == unvisited[nearestIndex]
       IN  TSPLoop(nearest, Splice(unvisited, nearestIndex),
                   Append(result, nearest))

solveTSP(origin, points) == TSPLoop(origin, points, <<>>)

\* ------------------------------------------------------------ RouteEngine
\* variant of getRemainingWaypoints that slices from the closest point
\* itself: slice(closestIndex)
getRemainingWaypoints_FromClosest(originalPath, currentLocation) ==
  SliceFrom(originalPath, NearestIndex(currentLocation, originalPath, 2, 1) - 1)

\* closest path point (first strict minimum), then slice(closestIndex + 1)
getRemainingWaypoints(originalPath, currentLocation) ==
  SliceFrom(originalPath, NearestIndex(currentLocation, originalPath, 2, 1))

\* ------------------------------------------- external routing capability
\* What the external services answer.  A successful answer follows the
\* requested stops in order, from the requested origin to the requested
\* destination, with exact coordinates; the first leg may pass through one
\* intermediate point.
Stops(request) ==
  <<request.origin>> \o request.waypoints \o <<request.destination>>

\* the successful answers considered: no intermediate point, live-traffic
\* duration present
Answers == {[via |-> None, traffic |-> TRUE]}

LatLng(p) == [lat |-> p.latitude, lng |-> p.longitude]

GoogleStep(a, b) == [start_location |-> LatLng(a), end_location |-> LatLng(b)]

GoogleLeg(a, b, via, traffic) ==
  LET dist == IF via = None THEN calculateDistance(a, b)
              ELSE calculateDistance(a, via[1]) + calculateDistance(via[1], b)
  IN  [steps    |-> IF via = None THEN <<GoogleStep(a, b)>>
                    ELSE <<GoogleStep(a, via[1]), GoogleStep(via[1], b)>>,
       distance |-> [value |-> dist],
       duration |-> [value |-> dist \div 10],
       duration_in_traffic |-> traffic]

GoogleLegs(stops, via, traffic) ==
  [i \in 1..(Len(stops) - 1) |->
     GoogleLeg(stops[i], stops[i + 1], IF i = 1 THEN via ELSE None, traffic)]

ErrorResponse == [status |-> "error", routes |-> <<>>]
NoRouteResponse == [status |-> "ok", routes |-> <<>>]

GoogleResponses(request) ==
  {ErrorResponse, NoRouteResponse} \cup
  {[status |-> "ok",
    routes |-> <<[legs |-> GoogleLegs(Stops(request), a.via, a.traffic)]>>] :
     a \in Answers}

LonLat(p) == <<p.longitude, p.latitude>>

MapboxLine(stops, via) ==
  IF via = None THEN stops ELSE <<stops[1]>> \o via \o Tail(stops)

MapboxCoordinates(stops, via) ==
  [i \in 1..Len(MapboxLine(stops, via)) |-> LonLat(MapboxLine(stops, via)[i])]

MapboxResponses(request) ==
  {ErrorResponse, NoRouteResponse} \cup
  {[status |-> "ok",
    routes |-> <<[geometry |-> [coordinates |->
                                  MapboxCoordinates(Stops(request), a.via)],
                  distance |-> PathDistance(MapboxLine(Stops(request), a.via)),
                  duration |-> PathDistance(MapboxLine(Stops(request), a.via))
                               \div 10]>>] :
     a \in Answers}

\* ------------------------------------------------- requests and calls
Req(o, d, w, v) ==
  [origin |-> o, destination |-> d, waypoints |-> w, vehicleType |-> v]

\* the route requests callers send
Requests == {Req(P00, P02, <<P01>>, "TRUCK_LARGE")}

\* the positions reported to recalculate
Locations == {P00, P01, P02}

\* the deliveryPoints of POST /optimize (at least two)
Deliveries == {<<P02, P01>>}

\* the recorded positions a transporter starts with: none, or one
StartLocations == {None, Some(P00)}

\* actualDuration of PUT /:id/status: absent, or a number of minutes
ActualDurations == {None, Some(45)}

\* pc: "idle", "awaitProvider" (axios.get in flight), "computed" (route
\* complete, store write not yet issued), "done", "failed" (returned).
\* invoked: the provider variants the call has invoked, in order.
\* providerFailed: the invoked external variant threw.
\* prev: the status updateRouteStatus, or the write of cancelOrder, found
\*       in the row.
\* order, transporter: the row cancelOrder and updateRating read.
\* newRating: the rating of POST /:id/rating.
\* wrote: whether a step of the call has changed the routes table.
\* cause: the condition that made the call fail, before its catch block
\* replaced the error.
\* tracking: the data of the GET /:id/tracking response.
\* seen: the tracking_data rows in the table when the handler queried it.
\* deliveryPoints: the stops given to optimizeMultipleDeliveries.
\* originalPath, currentLocation: the path recalculateRoute read from the
\* route and the position it was given.
\* routeData: what getExternalRoute returned to calculateOptimalRoute.
\* traffic: the TrafficCondition list of getRealTimeTrafficUpdate.
IdleCall ==
  [op |-> "none", pc |-> "idle", routeId |-> 0, orderId |-> "",
   transporterId |-> "", request |-> None, invoked |-> <<>>,
   providerFailed |-> FALSE, result |-> None, error |-> None,
   status |-> "", prev |-> None, wrote |-> FALSE, cause |-> "",
   tracking |-> None, seen |-> <<>>, deliveryPoints |-> <<>>,
   originalPath |-> <<>>, currentLocation |-> None, routeData |-> None,
   traffic |-> <<>>, order |-> None, transporter |-> None, newRating |-> 0]

TourIdle ==
  [pc |-> "idle", origin |-> P00, points |-> <<>>, result |-> <<>>, toll |-> 0]

Init ==
  /\ env \in [GOOGLE_MAPS_API_KEY : EnvValues, MAPBOX_ACCESS_TOKEN : EnvValues]
  /\ routes = <<>>
  /\ calls = [c \in Callers |-> IdleCall]
  /\ last = IdleCall
  /\ tour = TourIdle
  /\ transporters \in [TransporterIds -> {Transporter(l) : l \in StartLocations}]
  /\ trackingData = <<>>
  /\ OrdersInit
  /\ LimiterInit

Variant == getExternalRoute(env.GOOGLE_MAPS_API_KEY, env.MAPBOX_ACCESS_TOKEN)

Returned(call) == call.pc \in {"done", "failed"}

\* one step of caller c's request: the table becomes rs and the request
\* becomes call; a request that has returned leaves its slot and is `last`
Step(c, rs, call) ==
  LET call2 == [call EXCEPT !.wrote = @ \/ rs # routes]
  IN  /\ routes' = rs
      /\ calls' = [calls EXCEPT ![c] = IF Returned(call2) THEN IdleCall ELSE call2]
      /\ last' = IF Returned(call2) THEN call2 ELSE last
      /\ UNCHANGED <<env, tour, transporters, trackingData, orderVars, limiterVars>>

Fail(call, message, statusCode) ==
  [call EXCEPT !.pc = "failed", !.error = Some(createError(message, statusCode))]

\* the condition behind a failure: what was thrown inside the try block
Because(call, cause) == [call EXCEPT !.cause = cause]

\* calculateOptimalRoute up to its first network wait: with the fallback
\* variant the route is complete at once, otherwise the request to the
\* external service is in flight (axios.get, no timeout option)
StartCalculation(call, request, onSuccess) ==
  IF Variant = "basic"
  THEN [call EXCEPT !.request = Some(request), !.invoked = <<"basic">>,
                    !.routeData = Some(getBasicRoute(request)),
                    !.result = calculateOptimalRoute(request,
                                 Some(getBasicRoute(request))),
                    !.pc = onSuccess]
  ELSE [call EXCEPT !.request = Some(request), !.invoked = <<Variant>>,
                    !.pc = "awaitProvider"]

\* POST /calculate
Calculate(c, request) ==
  /\ calls[c].pc = "idle"
  /\ Step(c, routes,
          StartCalculation([IdleCall EXCEPT !.op = "calculateOptimalRoute"],
                           request, "done"))

\* POST / : createRoute up to prisma.route.create
CreateRoute(c, orderId, transporterId, request) ==
  /\ calls[c].pc = "idle"
  /\ Step(c, routes,
          StartCalculation([IdleCall EXCEPT !.op = "createRoute",
                                            !.orderId = orderId,
                                            !.transporterId = transporterId],
                           request, "computed"))

\* variant of RecalculateRoute that stores the remaining waypoints as the
\* route's path before the new route is computed
RecalculateRoute_WriteFirst(c, routeId, currentLocation) ==
  /\ calls[c].pc = "idle"
  /\ LET call == [IdleCall EXCEPT !.op = "recalculateRoute", !.routeId = routeId]
         failed == Fail(call, "Failed to recalculate route", 500)
     IN  IF routeId > Len(routes) THEN Step(c, routes, failed)
         ELSE LET remainingWaypoints ==
                    getRemainingWaypoints(routes[routeId].optimizedPath,
                                          currentLocation)
                  rs == [routes EXCEPT ![routeId].optimizedPath =
                           <<currentLocation>> \o remainingWaypoints]
              IN  IF Len(remainingWaypoints) = 0 THEN Step(c, rs, failed)
                  ELSE Step(c, rs, StartCalculation(call,
                         Req(currentLocation, Last(remainingWaypoints),
                             SliceInit(remainingWaypoints),
                             TransporterVehicleType[routes[routeId].transporterId]),
                         "computed"))

\* POST /:id/recalculate : recalculateRoute up to prisma.route.update
RecalculateRoute(c, routeId, currentLocation) ==
  /\ calls[c].pc = "idle"
  /\ LET call == [IdleCall EXCEPT
                    !.op = "recalculateRoute", !.routeId = routeId,
                    !.currentLocation = Some(currentLocation),
                    !.originalPath = IF routeId > Len(routes) THEN <<>>
                                     ELSE routes[routeId].optimizedPath]
         failed == Fail(call, "Failed to recalculate route", 500)
     IN  Step(c, routes,
           IF routeId > Len(routes) THEN Because(failed, "NotFound")
           ELSE LET remainingWaypoints ==
                      getRemainingWaypoints(routes[routeId].optimizedPath,
                                            currentLocation)
                IN  IF Len(remainingWaypoints) = 0
                    THEN Because(failed, "RouteAlreadyComplete")
                    ELSE StartCalculation(call,
                           Req(currentLocation, Last(remainingWaypoints),
                               SliceInit(remainingWaypoints),
                               TransporterVehicleType[routes[routeId].transporterId]),
                           "computed"))

\* variant of OptimizeMultipleDeliveries that passes the whole ordering as
\* waypoints (no slice)
OptimizeMultipleDeliveries_AllWaypoints(c, transporterId, deliveryPoints) ==
  /\ calls[c].pc = "idle"
  /\ LET call == [IdleCall EXCEPT !.op = "optimizeMultipleDeliveries",
                                  !.transporterId = transporterId,
                                  !.deliveryPoints = deliveryPoints]
         transporter == transporters[transporterId]
     IN  Step(c, routes,
           IF transporter.currentLocation = None
           THEN Because(Fail(call, "Failed to optimize route", 500),
                        "LocationUnavailable")
           ELSE LET origin == transporter.currentLocation[1]
                    optimizedOrder == solveTSP(origin, deliveryPoints)
                IN  StartCalculation(call,
                      Req(origin, Last(optimizedOrder), optimizedOrder,
                          TransporterVehicleType[transporterId]),
                      "done"))

\* POST /optimize : optimizeMultipleDeliveries up to the provider await
OptimizeMultipleDeliveries(c, transporterId, deliveryPoints) ==
  /\ calls[c].pc = "idle"
  /\ LET call == [IdleCall EXCEPT !.op = "optimizeMultipleDeliveries",
                                  !.transporterId = transporterId,
                                  !.deliveryPoints = deliveryPoints]
         transporter == transporters[transporterId]
     IN  Step(c, routes,
           IF transporter.currentLocation = None
           THEN Because(Fail(call, "Failed to optimize route", 500),
                        "LocationUnavailable")
           ELSE LET origin == transporter.currentLocation[1]
                    optimizedOrder == solveTSP(origin, deliveryPoints)
                IN  StartCalculation(call,
                      Req(origin, Last(optimizedOrder), SliceInit(optimizedOrder),
                          TransporterVehicleType[transporterId]),
                      "done"))

FailureOf(op) ==
  CASE op = "createRoute"      -> "Failed to create route"
    [] op = "recalculateRoute" -> "Failed to recalculate route"
    [] op = "optimizeMultipleDeliveries" -> "Failed to optimize route"
    [] OTHER                   -> "Failed to calculate optimal route"

\* the external service answers: the rest of getGoogleMapsRoute or
\* getMapboxRoute and of calculateOptimalRoute
ProviderRespond(c) ==
  /\ calls[c].pc = "awaitProvider"
  /\ LET call == calls[c]
         request == call.request[1]
     IN  \E response \in IF call.invoked[1] = "google"
                         THEN GoogleResponses(request)
                         ELSE MapboxResponses(request) :
           LET routeData == IF call.invoked[1] = "google"
                            THEN getGoogleMapsRoute(request, response)
                            ELSE getMapboxRoute(request, response)
               r == calculateOptimalRoute(request, routeData)
           IN  Step(c, routes,
                 IF r = None
                 THEN Because(Fail([call EXCEPT !.providerFailed = routeData = None],
                                   FailureOf(call.op), 500),
                              "ProviderError")
                 ELSE [call EXCEPT !.result = r,
                         !.routeData = routeData,
                         !.providerFailed = routeData = None,
                         !.pc = IF call.op \in {"calculateOptimalRoute",
                                                "optimizeMultipleDeliveries"}
                                THEN "done" ELSE "computed"])

\* ----------------------------------------------------------- record store
\* variant of UniqueViolation for a schema without the @unique attribute
UniqueViolation_None(rs, orderId) == FALSE

\* schema.prisma: Route.orderId is @unique
UniqueViolation(rs, orderId) ==
  \E i \in 1..Len(rs) : rs[i].orderId = orderId

\* variant of NewRoute that stores the two cost estimates in each other's
\* column
NewRoute_SwappedCosts(orderId, transporterId, optimizedRoute) ==
  [orderId           |-> orderId,
   transporterId     |-> transporterId,
   optimizedPath     |-> optimizedRoute.path,
   estimatedDuration |-> optimizedRoute.estimatedDuration,
   distance          |-> optimizedRoute.totalDistance,
   fuelCost          |-> optimizedRoute.estimatedTollCost,
   tollCost          |-> optimizedRoute.estimatedFuelCost,
   status            |-> "PLANNED",
   actualDuration    |-> None]

\* the row prisma.route.create inserts for createRoute
NewRoute(orderId, transporterId, optimizedRoute) ==
  [orderId           |-> orderId,
   transporterId     |-> transporterId,
   optimizedPath     |-> optimizedRoute.path,
   estimatedDuration |-> optimizedRoute.estimatedDuration,
   distance          |-> optimizedRoute.totalDistance,
   fuelCost          |-> optimizedRoute.estimatedFuelCost,
   tollCost          |-> optimizedRoute.estimatedTollCost,
   status            |-> "PLANNED",
   actualDuration    |-> None]

\* variant of RecalculatedRow whose update also sets the status back to
\* PLANNED
RecalculatedRow_Replanned(row, newRoute) ==
  [row EXCEPT !.optimizedPath     = newRoute.path,
              !.estimatedDuration = newRoute.estimatedDuration,
              !.distance          = newRoute.totalDistance,
              !.fuelCost          = newRoute.estimatedFuelCost,
              !.tollCost          = newRoute.estimatedTollCost,
              !.status            = "PLANNED"]

\* variant of RecalculatedRow whose update leaves the two cost columns out
RecalculatedRow_NoCosts(row, newRoute) ==
  [row EXCEPT !.optimizedPath     = newRoute.path,
              !.estimatedDuration = newRoute.estimatedDuration,
              !.distance          = newRoute.totalDistance]

\* the data of prisma.route.update in recalculateRoute, applied to a row
RecalculatedRow(row, newRoute) ==
  [row EXCEPT !.optimizedPath     = newRoute.path,
              !.estimatedDuration = newRoute.estimatedDuration,
              !.distance          = newRoute.totalDistance,
              !.fuelCost          = newRoute.estimatedFuelCost,
              !.tollCost          = newRoute.estimatedTollCost]

\* variant of StatusUpdatedRow that builds the whole updateData inside
\* `if (actualDuration)`
StatusUpdatedRow_Guarded(row, status, actualDuration) ==
  IF actualDuration # None /\ actualDuration[1] # 0
  THEN [row EXCEPT !.status = status, !.actualDuration = actualDuration]
  ELSE row

\* updateData of updateRouteStatus, applied to a row: the status is always
\* written, actualDuration only when it is truthy
StatusUpdatedRow(row, status, actualDuration) ==
  [row EXCEPT !.status = status,
              !.actualDuration = IF actualDuration # None /\ actualDuration[1] # 0
                                 THEN actualDuration ELSE @]

\* createRoute from prisma.route.create on
CreateRouteWrite(c) ==
  /\ calls[c].pc = "computed"
  /\ calls[c].op = "createRoute"
  /\ IF UniqueViolation(routes, calls[c].orderId)
     THEN Step(c, routes, Because(Fail(calls[c], "Failed to create route", 500),
                                  "DuplicateRoute"))
     ELSE Step(c, Append(routes, NewRoute(calls[c].orderId,
                                          calls[c].transporterId,
                                          calls[c].result[1])),
               [calls[c] EXCEPT !.pc = "done", !.routeId = Len(routes) + 1])

\* recalculateRoute from prisma.route.update on
RecalculateWrite(c) ==
  /\ calls[c].pc = "computed"
  /\ calls[c].op = "recalculateRoute"
  /\ Step(c, [routes EXCEPT ![calls[c].routeId] =
                RecalculatedRow(@, calls[c].result[1])],
          [calls[c] EXCEPT !.pc = "done"])

\* PUT /:id/status : updateRouteStatus
UpdateRouteStatus(c, routeId, status, actualDuration) ==
  /\ calls[c].pc = "idle"
  /\ LET call == [IdleCall EXCEPT !.op = "updateRouteStatus",
                                  !.routeId = routeId, !.status = status]
     IN  IF routeId > Len(routes)
         THEN Step(c, routes, Because(Fail(call, "Failed to update route status",
                                           500), "NotFound"))
         ELSE Step(c, [routes EXCEPT ![routeId] =
                         StatusUpdatedRow(@, status, actualDuration)],
                   [call EXCEPT !.pc = "done",
                                !.prev = Some(routes[routeId].status)])

Next ==
  \/ \E c \in Callers, request \in Requests : Calculate(c, request)
  \/ \E c \in Callers, o \in OrderIds, t \in TransporterIds, request \in Requests :
       CreateRoute(c, o, t, request)
  \/ \E c \in Callers, r \in RouteIds, l \in Locations : RecalculateRoute(c, r, l)
  \/ \E c \in Callers : ProviderRespond(c)
  \/ \E c \in Callers : CreateRouteWrite(c)
  \/ \E c \in Callers : RecalculateWrite(c)
  \/ \E c \in Callers, r \in RouteIds, s \in RouteStatus, d \in ActualDurations :
       UpdateRouteStatus(c, r, s, d)
  \/ \E c \in Callers, t \in TransporterIds, d \in Deliveries :
       OptimizeMultipleDeliveries(c, t, d)

Spec == Init /\ [][Next]_vars

\* The engine's own steps are always taken once they are possible (the
\* event loop runs every ready continuation); nothing obliges the external
\* routing service to answer.
LiveSpec ==
  Spec /\ \A c \in Callers : WF_vars(CreateRouteWrite(c) \/ RecalculateWrite(c))

\* ------------------------------------------------------------- progress
\* A JavaScript number that may be NaN: <<n>> is the number n, <<>> is NaN.
NaN == <<>>

\* the inline haversine of the tracking handler (same formula as
\* calculateDistance, the tracked position as first point)
TrackingDistances(routePath, position) ==
  [i \in 1..Len(routePath) |->
     calculateDistance(Wp(position.latitude, position.longitude), routePath[i])]

\* Math.min(...distances)
MathMin(distances) ==
  CHOOSE m \in {distances[i] : i \in 1..Len(distances)} :
    \A i \in 1..Len(distances) : m <= distances[i]

\* variant of ClosestPointIndex that uses lastIndexOf
ClosestPointIndex_Last(distances) ==
  (CHOOSE i \in 1..Len(distances) :
     /\ distances[i] = MathMin(distances)
     /\ \A j \in (i + 1)..Len(distances) : distances[j] # MathMin(distances)) - 1

\* distances.indexOf(Math.min(...distances)), 0-based as in the code
ClosestPointIndex(distances) ==
  (CHOOSE i \in 1..Len(distances) :
     /\ distances[i] = MathMin(distances)
     /\ \A j \in 1..(i - 1) : distances[j] # MathMin(distances)) - 1

\* Math.round((closestPointIndex / (length - 1)) * 100): 0 / 0 is NaN,
\* Math.round rounds halves up
ProgressOf(closestPointIndex, length) ==
  IF length - 1 = 0 THEN NaN
  ELSE <<(200 * closestPointIndex + (length - 1)) \div (2 * (length - 1))>>

\* route.estimatedDuration * (1 - progress / 100), in 1/100 of the unit of
\* estimatedDuration
TimeRemaining(estimatedDuration, progress) ==
  IF progress = NaN THEN NaN ELSE <<estimatedDuration * (100 - progress[1])>>

\* a row of tracking_data
Track(transporterId, orderId, point) ==
  [transporterId |-> transporterId, orderId |-> orderId,
   latitude |-> point.latitude, longitude |-> point.longitude]

\* trackingData.findMany({where: {transporterId, orderId},
\*                        orderBy: {timestamp: 'desc'}, take: 1})
LatestTracking(rows, transporterId, orderId) ==
  LET matching == {i \in 1..Len(rows) :
                     /\ rows[i].transporterId = transporterId
                     /\ rows[i].orderId = Some(orderId)}
  IN  IF matching = {} THEN None
      ELSE Some(rows[CHOOSE i \in matching : \A j \in matching : j <= i])

\* GET /:id/tracking
GetTracking(c, routeId) ==
  /\ calls[c].pc = "idle"
  /\ LET call == [IdleCall EXCEPT !.op = "tracking", !.routeId = routeId]
     IN  Step(c, routes,
           IF routeId > Len(routes)
           THEN Because(Fail(call, "Route not found", 404), "NotFound")
           ELSE LET route == routes[routeId]
                    found == LatestTracking(trackingData, route.transporterId,
                                            route.orderId)
                    routePath == route.optimizedPath
                    progress ==
                      IF found # None /\ Len(routePath) > 0
                      THEN ProgressOf(ClosestPointIndex(
                                        TrackingDistances(routePath, found[1])),
                                      Len(routePath))
                      ELSE <<0>>
                IN  [call EXCEPT
                       !.pc = "done",
                       !.seen = trackingData,
                       !.tracking =
                         Some([currentLocation |-> found,
                               progress |-> progress,
                               estimatedTimeRemaining |->
                                 TimeRemaining(route.estimatedDuration,
                                               progress)])])

\* the live-location feed stores a position in tracking_data
TrackPosition(transporterId, orderId, point) ==
  /\ Len(trackingData) < MaxTracking
  /\ trackingData' = Append(trackingData, Track(transporterId, orderId, point))
  /\ UNCHANGED <<env, routes, calls, last, tour, transporters, orderVars, limiterVars>>

\* the planned paths of the tracked routes: up to MaxStops points on a
\* line of equally spaced points, in any order and with repetitions
ProgressPaths == UNION {[1..n -> {P00, P01, P02, P03}] : n \in 0..MaxStops}

\* the positions the feed reports, with the order they belong to (none for
\* a position reported outside an order)
TrackedPositions == {<<Some("o1"), P02>>, <<Some("o1"), P11>>, <<None, P03>>}

\* the row a createRoute stores when the secondary provider answers with
\* the line `path`
StoredRoute(path) ==
  LET request == Req(P00, P03, <<>>, "VAN")
      response == [status |-> "ok",
                   routes |-> <<[geometry |-> [coordinates |->
                                    [i \in 1..Len(path) |-> LonLat(path[i])]],
                                 distance |-> PathDistance(path),
                                 duration |-> PathDistance(path) \div 10]>>]
  IN  NewRoute("o1", "t1",
               calculateOptimalRoute(request,
                                     getMapboxRoute(request, response))[1])

ProgressInit ==
  /\ env = [GOOGLE_MAPS_API_KEY |-> "", MAPBOX_ACCESS_TOKEN |-> "key"]
  /\ routes \in {<<StoredRoute(path)>> : path \in ProgressPaths}
  /\ calls = [c \in Callers |-> IdleCall]
  /\ last = IdleCall
  /\ tour = TourIdle
  /\ transporters = [t \in TransporterIds |-> Transporter(None)]
  /\ trackingData = <<>>
  /\ OrdersInit
  /\ LimiterInit

ProgressNext ==
  \/ \E tp \in TrackedPositions : TrackPosition("t1", tp[1], tp[2])
  \/ \E r \in RouteIds : GetTracking("A", r)

ProgressSpec == ProgressInit /\ [][ProgressNext]_vars

\* ------------------------------------------------------ transporter location
\* TransporterService.updateLocation: transporter.update, then
\* trackingData.create with transporterId, latitude, longitude and
\* timestamp (no orderId, which the schema leaves optional)
UpdateLocation(id, location) ==
  /\ Len(trackingData) < MaxTracking
  /\ transporters' = [transporters EXCEPT ![id].currentLocation = Some(location)]
  /\ trackingData' = Append(trackingData, Track(id, None, location))
  /\ UNCHANGED <<env, routes, calls, last, tour, orderVars, limiterVars>>

\* the positions a transporter reports
ReportedLocations == {P00, P02, P11}

\* the planned paths of the routes whose transporter reports: one to
\* MaxStops points
LocationPaths == UNION {[1..n -> {P00, P02}] : n \in 1..MaxStops}

LocationInit ==
  /\ env = [GOOGLE_MAPS_API_KEY |-> "", MAPBOX_ACCESS_TOKEN |-> "key"]
  /\ routes \in {<<StoredRoute(path)>> : path \in LocationPaths}
  /\ calls = [c \in Callers |-> IdleCall]
  /\ last = IdleCall
  /\ tour = TourIdle
  /\ transporters = [t \in TransporterIds |-> Transporter(None)]
  /\ trackingData = <<>>
  /\ OrdersInit
  /\ LimiterInit

LocationNext ==
  \/ \E t \in TransporterIds, p \in ReportedLocations : UpdateLocation(t, p)
  \/ \E r \in RouteIds : GetTracking("A", r)

LocationSpec == LocationInit /\ [][LocationNext]_vars

\* ------------------------------------------- one caller, several orders
\* the order ids of the requests served one at a time
SerialOrderIds == {"o1", "o2"}

\* the status updates and reported positions of those requests
SerialStatus    == {"IN_PROGRESS", "CANCELLED"}
SerialLocations == {P01, P02}

SerialInit ==
  /\ Init
  /\ transporters = [t \in TransporterIds |-> Transporter(None)]

SerialNext ==
  \/ \E o \in SerialOrderIds, t \in TransporterIds, request \in Requests :
       CreateRoute("A", o, t, request)
  \/ \E r \in RouteIds, l \in SerialLocations : RecalculateRoute("A", r, l)
  \/ ProviderRespond("A")
  \/ CreateRouteWrite("A")
  \/ RecalculateWrite("A")
  \/ \E r \in RouteIds, s \in SerialStatus :
       UpdateRouteStatus("A", r, s, None)

SerialSpec == SerialInit /\ [][SerialNext]_vars

\* ------------------------------------------------- tour planner on its own
StopSeqs == UNION {[1..n -> Points] : n \in 0..MaxStops}

TourInit ==
  /\ env = [GOOGLE_MAPS_API_KEY |-> "", MAPBOX_ACCESS_TOKEN |-> ""]
  /\ routes = <<>>
  /\ calls = [c \in Callers |-> IdleCall]
  /\ last = IdleCall
  /\ tour \in [pc : {"ready"}, origin : Points, points : StopSeqs,
               result : {<<>>}, toll : {0}]
  /\ transporters = [t \in TransporterIds |-> Transporter(None)]
  /\ trackingData = <<>>
  /\ OrdersInit
  /\ LimiterInit

TourRun ==
  /\ tour.pc = "ready"
  /\ tour' = [tour EXCEPT !.pc = "done",
                          !.result = solveTSP(tour.origin, tour.points)]
  /\ UNCHANGED <<env, routes, calls, last, transporters, trackingData, orderVars, limiterVars>>

TourNext == TourRun

TourSpec == TourInit /\ [][TourNext]_vars

\* --------------------------------------------- toll estimate on its own
\* estimateTollCost applied to the points of `tour` as a path
TollRun ==
  /\ tour.pc = "ready"
  /\ tour' = [tour EXCEPT !.pc = "done", !.toll = estimateTollCost(tour.points)]
  /\ UNCHANGED <<env, routes, calls, last, transporters, trackingData, orderVars, limiterVars>>

TollNext == TollRun

TollSpec == TourInit /\ [][TollNext]_vars

\* ---------------------------------------------------- orders and ratings
\* one step of caller c's request on the orders or transporters table
Serve(c, call) ==
  /\ calls' = [calls EXCEPT ![c] = IF Returned(call) THEN IdleCall ELSE call]
  /\ last' = IF Returned(call) THEN call ELSE last

\* the ids requests name: the stored rows and one that is not stored
RequestedOrderIds == OrderIds \cup {"o0"}

\* cancelOrder up to its update: getOrderById and the two status checks
CancelOrder(c, id) ==
  /\ calls[c].pc = "idle"
  /\ LET call == [IdleCall EXCEPT !.op = "cancelOrder", !.orderId = id]
     IN  Serve(c,
           IF id \notin DOMAIN orders
           THEN Because(Fail(call, "Order not found", 404), "NotFound")
           ELSE IF orders[id].status = "DELIVERED"
           THEN Fail([call EXCEPT !.order = Some(orders[id])],
                     "Cannot cancel delivered order", 400)
           ELSE IF orders[id].status = "IN_TRANSIT"
           THEN Fail([call EXCEPT !.order = Some(orders[id])],
                     "Cannot cancel order in transit", 400)
           ELSE [call EXCEPT !.pc = "cancelling", !.order = Some(orders[id])])
  /\ UNCHANGED <<env, routes, tour, transporters, trackingData, orderVars,
                 limiterVars>>

\* cancelOrder's prisma.order.update and return
CancelOrderWrite(c) ==
  /\ calls[c].op = "cancelOrder" /\ calls[c].pc = "cancelling"
  /\ LET id == calls[c].orderId
     IN  /\ orders' = [orders EXCEPT ![id].status = "CANCELLED"]
         /\ Serve(c, [calls[c] EXCEPT !.pc = "done", !.wrote = TRUE,
                                      !.prev = Some(orders[id].status)])
  /\ UNCHANGED <<env, routes, tour, transporters, trackingData, rated,
                 limiterVars>>

\* updateOrderStatus: one prisma.order.update
UpdateOrderStatus(c, id, status) ==
  /\ calls[c].pc = "idle"
  /\ LET call == [IdleCall EXCEPT !.op = "updateOrderStatus", !.orderId = id,
                                  !.status = status]
     IN  IF id \notin DOMAIN orders
         THEN /\ orders' = orders
              /\ Serve(c, Because(Fail(call, "Failed to update order status",
                                       500), "NotFound"))
         ELSE /\ orders' = [orders EXCEPT ![id].status = status]
              /\ Serve(c, [call EXCEPT !.pc = "done", !.wrote = TRUE,
                                       !.prev = Some(orders[id].status)])
  /\ UNCHANGED <<env, routes, tour, transporters, trackingData, rated,
                 limiterVars>>

OrderInit ==
  /\ env = [GOOGLE_MAPS_API_KEY |-> "", MAPBOX_ACCESS_TOKEN |-> ""]
  /\ routes = <<>>
  /\ calls = [c \in Callers |-> IdleCall]
  /\ last = IdleCall
  /\ tour = TourIdle
  /\ transporters = [t \in TransporterIds |-> Transporter(None)]
  /\ trackingData = <<>>
  /\ orders \in [OrderIds -> [status : OrderStatus]]
  /\ rated = [t \in TransporterIds |-> 0]
  /\ LimiterInit

OrderNext ==
  \/ \E c \in Callers, id \in RequestedOrderIds : CancelOrder(c, id)
  \/ \E c \in Callers : CancelOrderWrite(c)
  \/ \E c \in Callers, id \in RequestedOrderIds, status \in OrderStatus :
       UpdateOrderStatus(c, id, status)

OrderSpec == OrderInit /\ [][OrderNext]_vars

\* the ratings POST /:id/rating is sent: below, inside and above 1..5
Ratings == {0, 3, 5, 6}

\* the ids rating requests name: the stored rows and one that is not stored
RequestedTransporterIds == TransporterIds \cup {"t0"}

\* Math.round(((currentRating * totalDeliveries + newRating) /
\*             (totalDeliveries + 1)) * 100) / 100, ratings in 1/100
UpdatedRating(currentRating, totalDeliveries, newRating) ==
  (2 * (currentRating * totalDeliveries + 100 * newRating)
     + (totalDeliveries + 1)) \div (2 * (totalDeliveries + 1))

\* the updateRating calls on transporter t that are between their read and
\* their write
Rating(t) ==
  {c \in Callers : calls[c].op = "updateRating" /\ calls[c].transporterId = t}

\* POST /:id/rating up to the update: the check of the rating, then
\* getTransporterById
UpdateRating(c, transporterId, newRating) ==
  /\ calls[c].pc = "idle"
  /\ transporterId \in TransporterIds
       => rated[transporterId] + Cardinality(Rating(transporterId)) < MaxRatings
  /\ LET call == [IdleCall EXCEPT !.op = "updateRating",
                                  !.transporterId = transporterId,
                                  !.newRating = newRating]
     IN  Serve(c,
           IF newRating < 1 \/ newRating > 5
           THEN Fail(call, "Rating must be between 1 and 5", 400)
           ELSE IF transporterId \notin DOMAIN transporters
           THEN Because(Fail(call, "Failed to update rating", 500), "NotFound")
           ELSE [call EXCEPT !.pc = "rating",
                             !.transporter = Some(transporters[transporterId])])
  /\ UNCHANGED <<env, routes, tour, transporters, trackingData, orderVars,
                 limiterVars>>

\* updateRating's prisma.transporter.update, with the values computed from
\* the row it read, and return
UpdateRatingWrite(c) ==
  /\ calls[c].op = "updateRating" /\ calls[c].pc = "rating"
  /\ LET t == calls[c].transporterId
         row == calls[c].transporter[1]
     IN  /\ transporters' =
              [transporters EXCEPT
                 ![t].rating = UpdatedRating(row.rating, row.totalDeliveries,
                                             calls[c].newRating),
                 ![t].totalDeliveries = row.totalDeliveries + 1]
         /\ rated' = [rated EXCEPT ![t] = @ + 1]
         /\ Serve(c, [calls[c] EXCEPT !.pc = "done", !.wrote = TRUE])
  /\ UNCHANGED <<env, routes, tour, trackingData, orders, limiterVars>>

RatingInit ==
  /\ env = [GOOGLE_MAPS_API_KEY |-> "", MAPBOX_ACCESS_TOKEN |-> ""]
  /\ routes = <<>>
  /\ calls = [c \in Callers |-> IdleCall]
  /\ last = IdleCall
  /\ tour = TourIdle
  /\ transporters \in [TransporterIds -> {Transporter(l) : l \in StartLocations}]
  /\ trackingData = <<>>
  /\ OrdersInit
  /\ LimiterInit

RatingNext ==
  \/ \E c \in Callers, t \in RequestedTransporterIds, newRating \in Ratings :
       UpdateRating(c, t, newRating)
  \/ \E c \in Callers : UpdateRatingWrite(c)

RatingSpec == RatingInit /\ [][RatingNext]_vars

\* ----------------------------------------------------------- rate limiter
WINDOW_SIZE == 15 * 60 * 1000

MAX_REQUESTS == 100

\* variant of rateLimiter that refuses from the MAX_REQUESTS-th request on
rateLimiter_OffByOne(s, clientId, now) ==
  LET kept == [k \in {k \in DOMAIN s : ~(s[k].resetTime < now)} |-> s[k]]
      opened == [k \in DOMAIN kept \cup {clientId} |->
                   IF k = clientId
                   THEN [count |-> 1, resetTime |-> now + WINDOW_SIZE]
                   ELSE kept[k]]
  IN  IF clientId \notin DOMAIN kept
      THEN [store |-> opened, next |-> TRUE, status |-> 200, retryAfter |-> 0]
      ELSE LET counted == [kept EXCEPT ![clientId].count = @ + 1]
           IN  IF counted[clientId].count >= MAX_REQUESTS
               THEN [store |-> counted, next |-> FALSE, status |-> 429,
                     retryAfter |->
                       (counted[clientId].resetTime - now + 999) \div 1000]
               ELSE [store |-> counted, next |-> TRUE, status |-> 200,
                     retryAfter |-> 0]

\* rateLimiter(req, res, next) on the store s at time now: the store it
\* leaves, whether it calls next(), the status it answers with otherwise and
\* retryAfter = Math.ceil((resetTime - now) / 1000)
rateLimiter(s, clientId, now) ==
  LET kept == [k \in {k \in DOMAIN s : ~(s[k].resetTime < now)} |-> s[k]]
      opened == [k \in DOMAIN kept \cup {clientId} |->
                   IF k = clientId
                   THEN [count |-> 1, resetTime |-> now + WINDOW_SIZE]
                   ELSE kept[k]]
  IN  IF clientId \notin DOMAIN kept
      THEN [store |-> opened, next |-> TRUE, status |-> 200, retryAfter |-> 0]
      ELSE IF kept[clientId].resetTime < now
      THEN [store |-> opened, next |-> TRUE, status |-> 200, retryAfter |-> 0]
      ELSE LET counted == [kept EXCEPT ![clientId].count = @ + 1]
           IN  IF counted[clientId].count > MAX_REQUESTS
               THEN [store |-> counted, next |-> FALSE, status |-> 429,
                     retryAfter |->
                       (counted[clientId].resetTime - now + 999) \div 1000]
               ELSE [store |-> counted, next |-> TRUE, status |-> 200,
                     retryAfter |-> 0]

\* the requests a client sends within one window of the store
MaxBurst(clientId) ==
  IF clientId = "ip1" THEN MAX_REQUESTS + 2 ELSE MaxOther

\* a request of client clientId reaches the middleware; window counts the
\* client's requests since the first one that came strictly after the end
\* of its previous window
Request(clientId) ==
  /\ (clientId \in DOMAIN store /\ ~(store[clientId].resetTime < clock))
       => store[clientId].count < MaxBurst(clientId)
  /\ LET now == clock
         out == rateLimiter(store, clientId, now)
         w == window[clientId]
         passedNow == IF out.next THEN 1 ELSE 0
     IN  /\ store' = out.store
         /\ reply' = [clientId |-> clientId, next |-> out.next,
                      status |-> out.status, retryAfter |-> out.retryAfter]
         /\ window' = [window EXCEPT ![clientId] =
                         IF w.start < 0 \/ now > w.start + WINDOW_SIZE
                         THEN [start |-> now, requests |-> 1,
                               passed |-> passedNow]
                         ELSE [start |-> w.start, requests |-> w.requests + 1,
                               passed |-> w.passed + passedNow]]
  /\ UNCHANGED <<env, routes, calls, last, tour, transporters, trackingData,
                 orderVars, clock>>

\* the instants at which requests arrive: the start of a window length
\* and the millisecond after it
Instants == {w * WINDOW_SIZE + ms : w \in 0..MaxWindows, ms \in {0, 1}}

\* time passes until a later instant
Tick(t) ==
  /\ t > clock
  /\ clock' = t
  /\ UNCHANGED <<env, routes, calls, last, tour, transporters, trackingData,
                 orderVars, store, window, reply>>

RateInit ==
  /\ env = [GOOGLE_MAPS_API_KEY |-> "", MAPBOX_ACCESS_TOKEN |-> ""]
  /\ routes = <<>>
  /\ calls = [c \in Callers |-> IdleCall]
  /\ last = IdleCall
  /\ tour = TourIdle
  /\ transporters = [t \in TransporterIds |-> Transporter(None)]
  /\ trackingData = <<>>
  /\ OrdersInit
  /\ LimiterInit

RateNext ==
  \/ \E clientId \in ClientIds : Request(clientId)
  \/ \E t \in Instants : Tick(t)

RateSpec == RateInit /\ [][RateNext]_vars

\* ---------------------------------------------------------------- traffic
\* Math.random() > 0.7 ? 'heavy' : 'light'
TrafficConditions == {"heavy", "light"}

\* Math.random() > 0.7 ? Math.floor(Math.random() * 15) : 0, a second and
\* third draw: 0..14, of which the smallest, a middle and the largest value
TrafficDelays == {0, 7, 14}

\* getTrafficData: one entry per element of path.slice(0, -1), every entry
\* with its own draws
getTrafficData(path) ==
  {[i \in 1..Len(SliceInit(path)) |->
      [segment   |-> [start |-> path[i], end |-> path[i + 1]],
       condition |-> draw[i][1],
       delay     |-> draw[i][2]]] :
     draw \in [1..Len(SliceInit(path)) -> TrafficConditions \X TrafficDelays]}

\* GET /:id/traffic : getRealTimeTrafficUpdate
GetRealTimeTrafficUpdate(c, routeId) ==
  /\ calls[c].pc = "idle"
  /\ LET call == [IdleCall EXCEPT !.op = "getRealTimeTrafficUpdate",
                                  !.routeId = routeId]
     IN  IF routeId > Len(routes)
         THEN Step(c, routes, Because(Fail(call, "Failed to get traffic update",
                                           500), "NotFound"))
         ELSE \E trafficData \in getTrafficData(routes[routeId].optimizedPath) :
                Step(c, routes, [call EXCEPT !.pc = "done",
                                             !.traffic = trafficData])

\* the stored paths: none to MaxStops points
TrafficPaths == UNION {[1..n -> {P00, P01}] : n \in 0..MaxStops}

TrafficInit ==
  /\ env = [GOOGLE_MAPS_API_KEY |-> "", MAPBOX_ACCESS_TOKEN |-> "key"]
  /\ routes \in {<<StoredRoute(path)>> : path \in TrafficPaths}
  /\ calls = [c \in Callers |-> IdleCall]
  /\ last = IdleCall
  /\ tour = TourIdle
  /\ transporters = [t \in TransporterIds |-> Transporter(None)]
  /\ trackingData = <<>>
  /\ OrdersInit
  /\ LimiterInit

TrafficNext == \E r \in RouteIds : GetRealTimeTrafficUpdate("A", r)

TrafficSpec == TrafficInit /\ [][TrafficNext]_vars

\* ------------------------------------ route calculation, every variant
\* the requests given to calculateOptimalRoute: every vehicle class of the
\* fuel price table and one the table does not have
CostVehicleTypes ==
  {"MOTORCYCLE", "CAR", "VAN", "TRUCK_SMALL", "TRUCK_MEDIUM", "TRUCK_LARGE",
   "BICYCLE"}

CostRequests ==
  {Req(P00, d, w, v) : d \in {P02, P11}, w \in {<<>>, <<P01>>},
                       v \in CostVehicleTypes}

CostInit ==
  /\ env \in [GOOGLE_MAPS_API_KEY : EnvValues, MAPBOX_ACCESS_TOKEN : EnvValues]
  /\ routes = <<>>
  /\ calls = [c \in Callers |-> IdleCall]
  /\ last = IdleCall
  /\ tour = TourIdle
  /\ transporters = [t \in TransporterIds |-> Transporter(None)]
  /\ trackingData = <<>>
  /\ OrdersInit
  /\ LimiterInit

\* one request per run
CostNext ==
  \/ /\ last = IdleCall
     /\ \E request \in CostRequests : Calculate("A", request)
  \/ ProviderRespond("A")

CostSpec == CostInit /\ [][CostNext]_vars

\* ----------------------------------------------- recalculation on its own
\* the stored paths recalculated: one to MaxStops points, repetitions and
\* points off the line included
RecalcPaths == UNION {[1..n -> {P00, P01, P02, P11}] : n \in 1..MaxStops}

\* the positions reported
RecalcLocations == {P01, P03, P11}

RecalcInit ==
  /\ env \in [GOOGLE_MAPS_API_KEY : {""}, MAPBOX_ACCESS_TOKEN : EnvValues]
  /\ routes \in {<<StoredRoute(path)>> : path \in RecalcPaths}
  /\ calls = [c \in Callers |-> IdleCall]
  /\ last = IdleCall
  /\ tour = TourIdle
  /\ transporters = [t \in TransporterIds |-> Transporter(None)]
  /\ trackingData = <<>>
  /\ OrdersInit
  /\ LimiterInit

\* one request per run
RecalcNext ==
  \/ /\ last = IdleCall
     /\ \E r \in RouteIds, l \in RecalcLocations : RecalculateRoute("A", r, l)
  \/ ProviderRespond("A")
  \/ RecalculateWrite("A")

RecalcSpec == RecalcInit /\ [][RecalcNext]_vars

\* ------------------------------------------------ multi-stop optimisation
\* the recorded positions of the transporter
DispatchLocations == {None, Some(P00), Some(P01), Some(P11)}

\* the deliveryPoints of POST /optimize: two to MaxStops points
DispatchDeliveries == {d \in StopSeqs : Len(d) >= 2}

DispatchInit ==
  /\ env \in [GOOGLE_MAPS_API_KEY : {""}, MAPBOX_ACCESS_TOKEN : EnvValues]
  /\ routes = <<>>
  /\ calls = [c \in Callers |-> IdleCall]
  /\ last = IdleCall
  /\ tour = TourIdle
  /\ transporters \in [TransporterIds -> {Transporter(l) : l \in DispatchLocations}]
  /\ trackingData = <<>>
  /\ OrdersInit
  /\ LimiterInit

\* one request per run
DispatchNext ==
  \/ /\ last = IdleCall
     /\ \E t \in TransporterIds, d \in DispatchDeliveries :
          OptimizeMultipleDeliveries("A", t, d)
  \/ ProviderRespond("A")

DispatchSpec == DispatchInit /\ [][DispatchNext]_vars

\* ------------------------------------- route calculation, fallback variant
\* the requests of POST /calculate: any two points, up to MaxStops waypoints
CalcWaypoints == UNION {[1..n -> {P01, P03, P11}] : n \in 0..MaxStops}

CalcRequests ==
  {Req(o, d, w, v) : o \in Points, d \in Points, w \in CalcWaypoints,
                     v \in {"MOTORCYCLE", "TRUCK_LARGE"}}

CalcInit ==
  /\ env = [GOOGLE_MAPS_API_KEY |-> "", MAPBOX_ACCESS_TOKEN |-> ""]
  /\ routes = <<>>
  /\ calls = [c \in Callers |-> IdleCall]
  /\ last = IdleCall
  /\ tour = TourIdle
  /\ transporters = [t \in TransporterIds |-> Transporter(None)]
  /\ trackingData = <<>>
  /\ OrdersInit
  /\ LimiterInit

\* one request per run
CalcNext ==
  /\ last = IdleCall
  /\ \E request \in CalcRequests : Calculate("A", request)

CalcSpec == CalcInit /\ [][CalcNext]_vars

\* ================================================================ claims
Terminal == {"COMPLETED", "CANCELLED"}

\* the transitions of the route state machine of the specification
Legal(from, to) ==
  <<from, to>> \in {<<"PLANNED", "IN_PROGRESS">>, <<"IN_PROGRESS", "COMPLETED">>,
                    <<"PLANNED", "CANCELLED">>, <<"IN_PROGRESS", "CANCELLED">>}

Range(seq) == {seq[i] : i \in 1..Len(seq)}

\* the calls in flight and the call that returned last
AllCalls == {calls[c] : c \in Callers} \cup {last}

\* C1: a route whose status is COMPLETED or CANCELLED keeps that status in
\* every step, and an updateRouteStatus that found such a status fails.
C1_TerminalIsFinal ==
  [][/\ \A r \in 1..Len(routes) :
          routes[r].status \in Terminal => routes'[r].status = routes[r].status
     /\ (last'.op = "updateRouteStatus" /\ last'.prev # None
           /\ last'.prev[1] \in Terminal) => last'.pc = "failed"]_vars

\* C2: an updateRouteStatus on a route in a non-terminal status that asks for
\* anything but one of the four transitions of the state machine fails and
\* leaves the row as it was.
C2_OnlyLegalTransitions ==
  [][\A r \in 1..Len(routes) :
       (routes[r].status \notin Terminal /\ routes'[r] # routes[r]
          /\ last'.op = "updateRouteStatus")
       => Legal(routes[r].status, routes'[r].status)]_vars

C4_OneRoutePerOrder ==
  /\ \A i, j \in 1..Len(routes) :
       i # j => routes[i].orderId # routes[j].orderId
  /\ (last.op = "createRoute" /\ last.pc = "failed" /\ last.result # None)
     => (~last.wrote /\ UniqueViolation(routes, last.orderId))
  /\ (last.op = "createRoute" /\ last.pc = "done")
     => routes[last.routeId].orderId = last.orderId

\* a createRoute whose route was computed has been rejected because the
\* order's row was already there
C4_Witness ==
  /\ last.op = "createRoute" /\ last.pc = "failed" /\ last.result # None
  /\ Len(routes) = 1 /\ routes[1].orderId = last.orderId

\* C5: a createRoute or recalculateRoute that failed has not changed the
\* routes table, and no call has changed it before its route was computed
\* and its own store write issued.
C5_NoWriteBeforeRoute ==
  /\ (last.op \in {"createRoute", "recalculateRoute"} /\ last.pc = "failed")
     => ~last.wrote
  /\ \A c \in Callers : ~calls[c].wrote

C5_Witness ==
  /\ last.op = "recalculateRoute" /\ last.pc = "failed" /\ last.providerFailed
  /\ last.routeId <= Len(routes)

\* C6: a call whose external provider threw has failed and carries no
\* route, and the fallback variant is invoked only when neither credential
\* is present.
C6_NoSilentFallback ==
  \A call \in AllCalls :
    /\ call.providerFailed
       => (call.pc = "failed" /\ call.result = None
           /\ call.error[1].statusCode = 500)
    /\ "basic" \in Range(call.invoked)
       => (env.GOOGLE_MAPS_API_KEY = "" /\ env.MAPBOX_ACCESS_TOKEN = "")

C6_Witness ==
  /\ last.op = "calculateOptimalRoute" /\ last.providerFailed
  /\ last.pc = "failed" /\ last.invoked = <<"mapbox">>

\* C7: every call that has started a route computation has invoked exactly
\* one provider variant: the primary when its credential is present, else
\* the secondary when its credential is present, else the fallback.
C7_SelectionByConfiguration ==
  \A call \in AllCalls :
    call.request # None =>
      /\ env.GOOGLE_MAPS_API_KEY # "" => call.invoked = <<"google">>
      /\ (env.GOOGLE_MAPS_API_KEY = "" /\ env.MAPBOX_ACCESS_TOKEN # "")
         => call.invoked = <<"mapbox">>
      /\ (env.GOOGLE_MAPS_API_KEY = "" /\ env.MAPBOX_ACCESS_TOKEN = "")
         => call.invoked = <<"basic">>

C7_Witness ==
  /\ env.GOOGLE_MAPS_API_KEY # "" /\ env.MAPBOX_ACCESS_TOKEN # ""
  /\ last.op = "calculateOptimalRoute" /\ last.pc = "done"
  /\ last.invoked = <<"google">>

\* C8: every call waiting for the external routing service eventually
\* returns to its caller.
C8_CallReturns ==
  \A c \in Callers : (calls[c].pc = "awaitProvider") ~> (calls[c].pc = "idle")

Count(seq, x) == Cardinality({i \in 1..Len(seq) : seq[i] = x})

\* C9: the tour planner's result is a permutation of its input: same length
\* and every stop as often as in the input; no stops give the empty tour
\* and one stop gives that stop.
C9_TourIsPermutation ==
  tour.pc = "done" =>
    /\ Len(tour.result) = Len(tour.points)
    /\ \A p \in Points : Count(tour.result, p) = Count(tour.points, p)
    /\ Len(tour.points) = 0 => tour.result = <<>>
    /\ Len(tour.points) = 1 => tour.result = tour.points

\* three stops, one coordinate twice, visited in another order than given
C9_Witness ==
  /\ tour.pc = "done" /\ Len(tour.points) = 3
  /\ tour.points[1] = tour.points[3] /\ tour.points[1] # tour.points[2]
  /\ tour.result # tour.points

\* C10: the path of every route a route computation returned starts at the
\* request's origin and ends at the request's destination.
C10_PathEndpoints ==
  \A call \in AllCalls :
    (call.result # None /\ call.request # None) =>
      /\ call.result[1].path[1] = call.request[1].origin
      /\ Last(call.result[1].path) = call.request[1].destination

\* C11: two failures a caller receives one after the other that have
\* different causes (LocationUnavailable, DuplicateRoute,
\* RouteAlreadyComplete, NotFound, ProviderError) carry different errors.
C11_DistinctFailures ==
  [][(last.pc = "failed" /\ last'.pc = "failed" /\ last.cause # last'.cause)
     => last.error # last'.error]_vars

\* C12: a recalculateRoute that finds no point after the closest path point
\* fails with the error 'Route already completed', has started no route
\* computation and has left the routes table as it was.
C12_RouteAlreadyComplete ==
  (last.op = "recalculateRoute" /\ last.cause = "RouteAlreadyComplete")
  => /\ last.pc = "failed"
     /\ last.error = Some(createError("Route already completed", 400))
     /\ last.invoked = <<>> /\ last.request = None
     /\ ~last.wrote

\* C13: a step that completes a createRoute appends exactly one row: its
\* status is PLANNED, its order and transporter are the given ones, its
\* path, distance, duration and costs are those of the route
\* calculateOptimalRoute returned to the call; every other row is unchanged,
\* and no other step changes the number of rows.
C13_CreateRouteEffect ==
  [][/\ (last' # last /\ last'.op = "createRoute" /\ last'.pc = "done")
        => /\ Len(routes') = Len(routes) + 1
           /\ last'.routeId = Len(routes')
           /\ SubSeq(routes', 1, Len(routes)) = routes
           /\ Last(routes') =
                [orderId           |-> last'.orderId,
                 transporterId     |-> last'.transporterId,
                 optimizedPath     |-> last'.result[1].path,
                 estimatedDuration |-> last'.result[1].estimatedDuration,
                 distance          |-> last'.result[1].totalDistance,
                 fuelCost          |-> last'.result[1].estimatedFuelCost,
                 tollCost          |-> last'.result[1].estimatedTollCost,
                 status            |-> "PLANNED",
                 actualDuration    |-> None]
     /\ Len(routes') # Len(routes)
        => (last' # last /\ last'.op = "createRoute" /\ last'.pc = "done")]_vars

\* the second order's route has been created next to the first order's
\* route, which had been recalculated and started before
C13_Witness ==
  /\ last.op = "createRoute" /\ last.pc = "done" /\ last.routeId = 2
  /\ Len(routes) = 2 /\ routes[1].status = "IN_PROGRESS"
  /\ routes[1].optimizedPath # routes[2].optimizedPath
  /\ routes[2].fuelCost # routes[2].tollCost

\* the index (from 0) of the first path point that is as close to the
\* position as any other
LowestClosest(path, position) ==
  CHOOSE i \in 0..(Len(path) - 1) :
    /\ \A j \in 0..(Len(path) - 1) :
         calculateDistance(position, path[i + 1])
           <= calculateDistance(position, path[j + 1])
    /\ \A j \in 0..(i - 1) :
         calculateDistance(position, path[j + 1])
           > calculateDistance(position, path[i + 1])

\* r is x / y rounded to the nearest integer, halves up
IsRounded(r, x, y) == 2 * y * r <= 2 * x + y /\ 2 * x + y < 2 * y * (r + 1)

\* C14: a tracking request for a route whose path has at least two points
\* reports progress 0 and no current location when no position is tracked
\* for the route's transporter and order, and otherwise the latest such
\* position and round(i / (pathLength - 1) * 100), i the lowest index among
\* the path points closest to it.
C14_Progress ==
  (last.op = "tracking" /\ last.pc = "done"
     /\ Len(routes[last.routeId].optimizedPath) >= 2)
  => LET path == routes[last.routeId].optimizedPath
         found == {i \in 1..Len(last.seen) :
                     /\ last.seen[i].orderId = Some(routes[last.routeId].orderId)
                     /\ last.seen[i].transporterId
                          = routes[last.routeId].transporterId}
         t == last.tracking[1]
     IN  IF found = {}
         THEN t.progress = <<0>> /\ t.currentLocation = None
         ELSE LET row == last.seen[CHOOSE i \in found : \A j \in found : j <= i]
                  position == Wp(row.latitude, row.longitude)
              IN  /\ t.currentLocation = Some(row)
                  /\ Len(t.progress) = 1
                  /\ IsRounded(t.progress[1],
                               100 * LowestClosest(path, position),
                               Len(path) - 1)

\* the latest position tracked for the order is as close to the second as
\* to the third of three points, an older one coincides with the third, and
\* the progress reported is 50
C14_Witness ==
  /\ last.op = "tracking" /\ last.pc = "done"
  /\ routes[1].optimizedPath = <<P00, P01, P01>>
  /\ Len(last.seen) = 2 /\ last.seen[1].longitude = 2
  /\ last.tracking[1].currentLocation = Some(Track("t1", Some("o1"), P11))
  /\ last.tracking[1].progress = <<50>>

\* C15: a tracking request for a route whose path has exactly one point and
\* for which a position is tracked reports progress 100 and no time
\* remaining, and every reported progress is a number from 0 to 100.
C15_SinglePointProgress ==
  (last.op = "tracking" /\ last.pc = "done")
  => LET t == last.tracking[1]
     IN  /\ Len(t.progress) = 1 /\ t.progress[1] \in 0..100
         /\ (Len(routes[last.routeId].optimizedPath) = 1
               /\ t.currentLocation # None)
            => (t.progress = <<100>> /\ t.estimatedTimeRemaining = <<0>>)

\* path, distance, duration, fuel cost and toll cost of a stored row
RouteFields(row) ==
  <<row.optimizedPath, row.distance, row.estimatedDuration, row.fuelCost,
    row.tollCost>>

\* C16: whenever a step changes the path, distance, duration, fuel cost or
\* toll cost of a stored route, the step is the store write of one
\* recalculateRoute call for that route and all five fields are then those
\* of that call's new route, whatever other recalculations are in flight.
C16_LastWriteWins ==
  [][\A r \in 1..Len(routes) :
       RouteFields(routes'[r]) # RouteFields(routes[r])
       => /\ last'.op = "recalculateRoute" /\ last'.pc = "done"
          /\ last'.routeId = r
          /\ RouteFields(routes'[r]) =
               <<last'.result[1].path, last'.result[1].totalDistance,
                 last'.result[1].estimatedDuration,
                 last'.result[1].estimatedFuelCost,
                 last'.result[1].estimatedTollCost>>]_vars

\* two recalculations of the same route, started from different positions,
\* were in flight together: one has written its route, the other has
\* computed a different route and is about to write it
C16_Witness ==
  /\ last.op = "recalculateRoute" /\ last.pc = "done"
  /\ \E c \in Callers :
       /\ calls[c].op = "recalculateRoute" /\ calls[c].pc = "computed"
       /\ calls[c].routeId = last.routeId
       /\ calls[c].result[1].path # last.result[1].path
       /\ calls[c].result[1].estimatedFuelCost # last.result[1].estimatedFuelCost
       /\ calls[c].request[1].origin # last.request[1].origin
       /\ Len(calls[c].request[1].waypoints) = 1
  /\ routes[last.routeId].optimizedPath = last.result[1].path

C18_FallbackPath ==
  (last.op = "calculateOptimalRoute" /\ last.pc = "done"
     /\ last.invoked = <<"basic">>)
  => LET request == last.request[1]
         route == last.result[1]
     IN  /\ Len(route.path) = Len(request.waypoints) + 2
         /\ route.path[1] = request.origin
         /\ \A i \in 1..Len(request.waypoints) :
              route.path[i + 1] = request.waypoints[i]
         /\ route.path[Len(route.path)] = request.destination
         /\ route.waypoints = request.waypoints

\* two waypoints given farthest first, one of them the destination itself
C18_Witness ==
  /\ last.op = "calculateOptimalRoute" /\ last.pc = "done"
  /\ last.request[1].origin = P00 /\ last.request[1].destination = P01
  /\ last.request[1].waypoints = <<P03, P01>>
  /\ last.result[1].path = <<P00, P03, P01, P01>>

\* C19: the fallback variant's distance is the distance from origin to
\* destination, the same whatever waypoints the request has, and its
\* duration is that distance at 50 km/h: minutes = (km / 50) * 60.
C19_FallbackDistance ==
  (last.op = "calculateOptimalRoute" /\ last.pc = "done"
     /\ last.invoked = <<"basic">>)
  => LET request == last.request[1]
         route == last.result[1]
     IN  /\ route.totalDistance
              = calculateDistance(request.origin, request.destination)
         /\ \A w \in CalcWaypoints :
              LET other == getBasicRoute([request EXCEPT !.waypoints = w])
              IN  /\ other.totalDistance = route.totalDistance
                  /\ other.estimatedDuration = route.estimatedDuration
         \* duration / 15000 minutes = ((distance / 1000 km) / 50) * 60,
         \* both sides times 750000
         /\ route.estimatedDuration * 50 = route.totalDistance * 60 * 15

\* a detour through two waypoints on the way to a destination next to the
\* origin: the path is much longer than the reported distance
C19_Witness ==
  /\ last.op = "calculateOptimalRoute" /\ last.pc = "done"
  /\ last.request[1].origin = P00 /\ last.request[1].destination = P01
  /\ last.request[1].waypoints = <<P03, P11>>
  /\ last.result[1].totalDistance = 27799
  /\ PathDistance(last.result[1].path) > 3 * last.result[1].totalDistance

\* the distances between consecutive points of a path, summed from the
\* front
RECURSIVE SumConsecutive(_)
SumConsecutive(path) ==
  IF Len(path) <= 1 THEN 0
  ELSE calculateDistance(path[1], path[2]) + SumConsecutive(Tail(path))

Visits(n) == {f \in [1..n -> 1..n] : \A i, j \in 1..n : f[i] = f[j] => i = j}

\* C21: the tour visits the input positions in an order in which every stop
\* is, among the stops not visited before it, at minimum distance from the
\* current position (the origin, then the stop visited last), and is the
\* first in input order of the unvisited stops at that distance.
C21_GreedyTour ==
  tour.pc = "done" =>
    \E f \in Visits(Len(tour.points)) :
      \A i \in 1..Len(tour.points) :
        LET current == IF i = 1 THEN tour.origin ELSE tour.result[i - 1]
            unvisited == {j \in 1..Len(tour.points) :
                            \A k \in 1..(i - 1) : f[k] # j}
        IN  /\ Len(tour.result) = Len(tour.points)
            /\ tour.result[i] = tour.points[f[i]]
            /\ \A j \in unvisited :
                 /\ calculateDistance(current, tour.points[f[i]])
                      <= calculateDistance(current, tour.points[j])
                 /\ calculateDistance(current, tour.points[f[i]])
                      = calculateDistance(current, tour.points[j])
                    => f[i] <= j

\* the origin's own position is visited first, and of the two stops then at
\* the same distance the one given first is visited next
C21_Witness ==
  /\ tour.pc = "done" /\ tour.origin = P01
  /\ tour.points = <<P02, P00, P01>>
  /\ tour.result = <<P01, P02, P00>>

\* C22: an optimizeMultipleDeliveries for a transporter with a recorded
\* position asks for a route from that position, to the last stop of the
\* tour planner's ordering, through the earlier stops of that ordering in
\* order: waypoints followed by destination are the stops given, every one
\* as often as given.
C22_OptimizeRequest ==
  \A call \in AllCalls :
    (call.op = "optimizeMultipleDeliveries"
       /\ transporters[call.transporterId].currentLocation # None)
    => /\ call.request # None
       /\ LET request == call.request[1]
              visited == Append(request.waypoints, request.destination)
          IN  /\ request.origin = transporters[call.transporterId].currentLocation[1]
              /\ visited = solveTSP(request.origin, call.deliveryPoints)
              /\ Len(visited) = Len(call.deliveryPoints)
              /\ \A p \in Points :
                   Count(visited, p) = Count(call.deliveryPoints, p)

\* three stops, one of them given twice, visited in another order than
\* given, the route being computed by the external service
C22_Witness ==
  /\ last.op = "optimizeMultipleDeliveries" /\ last.pc = "done"
  /\ last.invoked = <<"mapbox">>
  /\ last.deliveryPoints = <<P03, P01, P03>>
  /\ last.request[1].origin = P00
  /\ last.request[1].waypoints = <<P01, P03>>
  /\ last.request[1].destination = P03

\* C23: a recalculateRoute takes as closest point the first of the path
\* points nearest to the given position; when points come after it, the
\* route it asks for starts at the given position, ends at the last path
\* point and passes through the points strictly between the closest and the
\* last, in path order; when none comes after it, no route is asked for.
C23_RecalculateRequest ==
  \A call \in AllCalls :
    (call.op = "recalculateRoute" /\ call.originalPath # <<>>)
    => LET path == call.originalPath
           position == call.currentLocation[1]
           closest == LowestClosest(path, position) + 1
       IN  IF closest < Len(path)
           THEN /\ call.request # None
                /\ call.request[1].origin = position
                /\ call.request[1].destination = path[Len(path)]
                /\ call.request[1].waypoints
                     = [i \in 1..(Len(path) - closest - 1) |-> path[closest + i]]
           ELSE call.request = None /\ call.pc = "failed"

\* the position is as near to the first as to the second of three path
\* points: the second is the only waypoint, the third the destination
C23_Witness ==
  /\ last.op = "recalculateRoute" /\ last.pc = "done"
  /\ last.originalPath = <<P01, P01, P02>>
  /\ last.currentLocation = Some(P11)
  /\ last.request[1].waypoints = <<P01>>
  /\ last.request[1].destination = P02
  /\ routes[1].optimizedPath = <<P11, P01, P02>>

\* C24: a step that completes a recalculateRoute keeps the number of rows
\* and every row but the addressed one, and in the addressed row changes
\* nothing but path, distance, duration, fuel cost and toll cost, which
\* become those of the call's new route.
C24_RecalculateEffect ==
  [][(last' # last /\ last'.op = "recalculateRoute" /\ last'.pc = "done")
     => /\ Len(routes') = Len(routes)
        /\ \A r \in 1..Len(routes) : r # last'.routeId => routes'[r] = routes[r]
        /\ LET old == routes[last'.routeId]
               new == routes'[last'.routeId]
               newRoute == last'.result[1]
           IN  /\ new.orderId = old.orderId
               /\ new.transporterId = old.transporterId
               /\ new.status = old.status
               /\ new.actualDuration = old.actualDuration
               /\ new.optimizedPath = newRoute.path
               /\ new.distance = newRoute.totalDistance
               /\ new.estimatedDuration = newRoute.estimatedDuration
               /\ new.fuelCost = newRoute.estimatedFuelCost
               /\ new.tollCost = newRoute.estimatedTollCost]_vars

\* the second of two routes, in progress, has been recalculated; the first
\* is cancelled and has the path it was created with
C24_Witness ==
  /\ last.op = "recalculateRoute" /\ last.pc = "done" /\ last.routeId = 2
  /\ Len(routes) = 2
  /\ routes[2].status = "IN_PROGRESS" /\ routes[1].status = "CANCELLED"
  /\ routes[2].optimizedPath = last.result[1].path
  /\ routes[2].optimizedPath # routes[1].optimizedPath
  /\ routes[2].fuelCost # routes[1].fuelCost

\* the per-km rates of the six vehicle classes and the default rate, in
\* 1/100 currency
PerKmRate(vehicleClass) ==
  IF vehicleClass = "MOTORCYCLE" THEN 5
  ELSE IF vehicleClass = "CAR" THEN 8
  ELSE IF vehicleClass = "VAN" THEN 12
  ELSE IF vehicleClass = "TRUCK_SMALL" THEN 15
  ELSE IF vehicleClass = "TRUCK_MEDIUM" THEN 20
  ELSE IF vehicleClass = "TRUCK_LARGE" THEN 25
  ELSE 10

\* C25: the route calculateOptimalRoute returns has the provider's path,
\* distance, duration, traffic tag and waypoints; its fuel cost is the
\* distance times the per-km rate of the request's vehicle class (the
\* default rate for a class not in the table) and its toll cost is the toll
\* of the path, in place of the zeros of the provider's route.
C25_CostsOverwritten ==
  \A call \in AllCalls :
    call.result # None
    => /\ call.routeData # None
       /\ LET rd == call.routeData[1]
              route == call.result[1]
              total == SumConsecutive(rd.path)
          IN  /\ route.path = rd.path
              /\ route.totalDistance = rd.totalDistance
              /\ route.estimatedDuration = rd.estimatedDuration
              /\ route.trafficConditions = rd.trafficConditions
              /\ route.waypoints = rd.waypoints
              /\ rd.estimatedFuelCost = 0 /\ rd.estimatedTollCost = 0
              /\ route.estimatedFuelCost
                   = rd.totalDistance * PerKmRate(call.request[1].vehicleType)
              /\ route.estimatedTollCost
                   = IF total > 50000 THEN total * 2 ELSE 0

\* a route of the primary provider for a vehicle class the table does not
\* have: default rate on the provider's distance, toll of the provider's
\* path (shorter than 50 km, though the distance is not)
C25_Witness ==
  /\ last.op = "calculateOptimalRoute" /\ last.pc = "done"
  /\ last.invoked = <<"google">>
  /\ last.request[1].vehicleType = "BICYCLE"
  /\ last.result[1].totalDistance = 55598
  /\ last.result[1].estimatedFuelCost = 555980
  /\ last.result[1].estimatedTollCost = 0
  /\ last.result[1].trafficConditions = "real-time"

\* C26: a traffic update has one entry per consecutive pair of points of
\* the stored path, entry i spanning point i and point i + 1; every entry is
\* "heavy" or "light", and a "light" entry has delay 0.
C26_TrafficEntries ==
  (last.op = "getRealTimeTrafficUpdate" /\ last.pc = "done")
  => LET path == routes[last.routeId].optimizedPath
     IN  /\ Len(path) >= 1 => Len(last.traffic) = Len(path) - 1
         /\ \A i \in 1..Len(last.traffic) :
              /\ last.traffic[i].segment = [start |-> path[i], end |-> path[i + 1]]
              /\ last.traffic[i].condition \in {"heavy", "light"}
              /\ last.traffic[i].condition = "light" => last.traffic[i].delay = 0

\* C27: once updateLocation stored a position p for the transporter of a
\* route, the tracking of that route reports p (the transporter's latest
\* position) as currentLocation and a progress computed from p.
C27_LocationVisible ==
  (last.op = "tracking" /\ last.pc = "done")
  => LET route == routes[last.routeId]
         own   == {i \in 1..Len(last.seen) :
                     last.seen[i].transporterId = route.transporterId}
         p     == last.seen[CHOOSE i \in own : \A j \in own : j <= i]
     IN  own # {}
         => /\ last.tracking[1].currentLocation = Some(p)
            /\ last.tracking[1].progress =
                 ProgressOf(ClosestPointIndex(
                              TrackingDistances(route.optimizedPath, p)),
                            Len(route.optimizedPath))

\* C28: within one window of a client (from its first request until
\* resetTime has passed) the first MAX_REQUESTS requests call next() and
\* every further one is answered 429 without next(); the first request
\* strictly after resetTime opens a new window with count 1; a client's
\* count changes only with its own requests.
C28_RateLimit ==
  /\ \A c \in ClientIds :
       LET w == window[c]
       IN  /\ w.passed = (IF w.requests <= MAX_REQUESTS THEN w.requests
                                                        ELSE MAX_REQUESTS)
           /\ c \in DOMAIN store
                => /\ w.start >= 0
                   /\ store[c].count = w.requests
                   /\ store[c].resetTime = w.start + WINDOW_SIZE
           /\ (c \notin DOMAIN store /\ w.start >= 0)
                => w.start + WINDOW_SIZE < clock
  /\ reply # NoReply
       => /\ reply.next = (window[reply.clientId].requests <= MAX_REQUESTS)
          /\ reply.status = (IF reply.next THEN 200 ELSE 429)

C28_Witness ==
  /\ reply.clientId = "ip1" /\ reply.status = 429 /\ ~reply.next
  /\ window["ip1"].requests = MAX_REQUESTS + 1
  /\ window["ip1"].passed = MAX_REQUESTS
  /\ window["ip1"].start = 1 /\ clock = WINDOW_SIZE + 1
  /\ window["unknown"].requests = 2
  /\ "unknown" \in DOMAIN store

\* C29: cancelOrder never writes CANCELLED over a status that is DELIVERED
\* or IN_TRANSIT at the moment of the write, whatever runs concurrently;
\* for an order it reads as DELIVERED or IN_TRANSIT it fails with a 400
\* error.
C29_NeverCancelsUnderway ==
  last.op = "cancelOrder"
  => /\ last.pc = "done" => last.prev[1] \notin {"DELIVERED", "IN_TRANSIT"}
     /\ (last.order # None
          /\ last.order[1].status \in {"DELIVERED", "IN_TRANSIT"})
        => /\ last.pc = "failed"
           /\ last.error[1].statusCode = 400
           /\ ~last.wrote

\* C30: every updateRating call that returned added one to totalDeliveries:
\* a transporter that started with 0 has totalDeliveries equal to the number
\* of calls that returned, in every interleaving.
C30_NoLostRating ==
  \A t \in TransporterIds : transporters[t].totalDeliveries = rated[t]

====
